---- MODULE Spec2Model ----
(***************************************************************************)
(* Streaming indicators of ta-rs: HighestHighValue, LowestLowValue,        *)
(* CrossAbove, CrossBelow and LinearRegressionPrediction.                  *)
(*                                                                         *)
(* One indicator instance is modelled at a time.  `kind` is its Rust type, *)
(* `self` is a record holding exactly the fields of that struct.  Every    *)
(* method is a pure operator from the receiver (and its arguments) to the  *)
(* new receiver, the returned value and whether the call panicked; the     *)
(* actions apply these operators to the instance.                          *)
(*                                                                         *)
(* An f64 is a pair <<num, den>>: a finite value is the reduced fraction   *)
(* num/den with den > 0; <<1,0>> is +infinity, <<-1,0>> is -infinity and   *)
(* <<0,0>> is NaN.  Arithmetic on finite values is exact (no rounding).    *)
(***************************************************************************)
EXTENDS Integers, Sequences, FiniteSets, TLC

VARIABLES kind, self, err, panicked, call, hist, outs

vars == <<kind, self, err, panicked, call, hist, outs>>

(***************************************************************************)
(* Bounds of the model.                                                    *)
(***************************************************************************)
MaxPeriod == 3
MaxExtSteps == 4
MaxEdgeSteps == 5
MaxLrpSteps == 5
MaxQueue == 3
MaxFuture == 3

(***************************************************************************)
(* f64 values and the comparisons the indicators use.                      *)
(***************************************************************************)
NaN == <<0, 0>>
INFINITY == <<1, 0>>
NEG_INFINITY == <<-1, 0>>
F(n) == <<n, 1>>

IsNaN(a) == a = NaN
IsFinite(a) == a[2] # 0

\* a < b on f64: false whenever an operand is NaN
FLt(a, b) ==
    /\ ~IsNaN(a)
    /\ ~IsNaN(b)
    /\ a # b
    /\ CASE a = NEG_INFINITY -> TRUE
         [] a = INFINITY -> FALSE
         [] b = INFINITY -> TRUE
         [] b = NEG_INFINITY -> FALSE
         [] OTHER -> a[1] * b[2] < b[1] * a[2]

\* a <= b on f64: false whenever an operand is NaN
FLe(a, b) == ~IsNaN(a) /\ ~IsNaN(b) /\ (a = b \/ FLt(a, b))
FGt(a, b) == FLt(b, a)
FGe(a, b) == FLe(b, a)

\* f64::max and f64::min: a NaN operand is ignored, the other one is returned
FMax(a, b) == IF IsNaN(a) THEN b ELSE IF IsNaN(b) THEN a ELSE IF FLt(a, b) THEN b ELSE a
FMin(a, b) == IF IsNaN(a) THEN b ELSE IF IsNaN(b) THEN a ELSE IF FLt(b, a) THEN b ELSE a

\* slice.iter().fold(init, |a, &b| a.max(b)), left to right
RECURSIVE FoldMax(_, _)
FoldMax(acc, s) == IF s = <<>> THEN acc ELSE FoldMax(FMax(acc, Head(s)), Tail(s))

RECURSIVE FoldMin(_, _)
FoldMin(acc, s) == IF s = <<>> THEN acc ELSE FoldMin(FMin(acc, Head(s)), Tail(s))

(***************************************************************************)
(* Results of constructors and methods.                                    *)
(***************************************************************************)
NoInstance == [none |-> TRUE]
NoOutput == [none |-> TRUE]

Ok(s) == [err |-> "none", self |-> s]
Err(e) == [err |-> e, self |-> NoInstance]

Returned(s, out) == [self |-> s, out |-> out, panic |-> FALSE]
Panic(s) == [self |-> s, out |-> NoOutput, panic |-> TRUE]

(***************************************************************************)
(* HighestHighValue                                                        *)
(***************************************************************************)
HHVNew(period) ==
    IF period = 0
    THEN Err("InvalidParameter")
    ELSE Ok([period |-> period, index |-> 0, count |-> 0,
             deque |-> [i \in 1..period |-> NEG_INFINITY]])

\* HHVNext with the write cursor never advanced
HHVNextStuck(s, input) ==
    LET deque1 == [s.deque EXCEPT ![s.index + 1] = input]
        count1 == IF s.count < s.period THEN s.count + 1 ELSE s.count
        s1 == [s EXCEPT !.deque = deque1, !.count = count1]
    IN Returned(s1, FoldMax(NEG_INFINITY, SubSeq(deque1, 1, count1)))

\* index and count are 0-based as in the source; deque[i] of the source is
\* s.deque[i + 1] here.  An index or a slice end past the boxed slice panics.
HHVNext(s, input) ==
    IF s.index >= Len(s.deque)
    THEN Panic(s)
    ELSE LET deque1 == [s.deque EXCEPT ![s.index + 1] = input]
             index1 == IF s.index + 1 < s.period THEN s.index + 1 ELSE 0
             count1 == IF s.count < s.period THEN s.count + 1 ELSE s.count
             s1 == [s EXCEPT !.deque = deque1, !.index = index1, !.count = count1]
         IN IF count1 > Len(deque1)
            THEN Panic(s1)
            ELSE Returned(s1, FoldMax(NEG_INFINITY, SubSeq(deque1, 1, count1)))

\* HHVReset that leaves the write cursor where it is
HHVResetKeepIndex(s) ==
    Returned([s EXCEPT !.count = 0,
                       !.deque = [i \in 1..Len(s.deque) |-> NEG_INFINITY]],
             NoOutput)

HHVReset(s) ==
    IF s.period > Len(s.deque)
    THEN Panic([s EXCEPT !.index = 0, !.count = 0])
    ELSE Returned([s EXCEPT !.index = 0, !.count = 0,
                            !.deque = [i \in 1..Len(s.deque) |->
                                         IF i <= s.period THEN NEG_INFINITY ELSE s.deque[i]]],
                  NoOutput)

(***************************************************************************)
(* LowestLowValue                                                          *)
(***************************************************************************)
LLVNew(period) ==
    IF period = 0
    THEN Err("InvalidParameter")
    ELSE Ok([period |-> period, index |-> 0, count |-> 0,
             deque |-> [i \in 1..period |-> INFINITY]])

\* LLVNext with the fill counter never capped
LLVNextUncapped(s, input) ==
    IF s.index >= Len(s.deque)
    THEN Panic(s)
    ELSE LET deque1 == [s.deque EXCEPT ![s.index + 1] = input]
             index1 == IF s.index + 1 < s.period THEN s.index + 1 ELSE 0
             count1 == s.count + 1
             s1 == [s EXCEPT !.deque = deque1, !.index = index1, !.count = count1]
         IN IF count1 > Len(deque1)
            THEN Panic(s1)
            ELSE Returned(s1, FoldMin(INFINITY, SubSeq(deque1, 1, count1)))

\* LLVNext with the cursor wrapped one slot too late
LLVNextWrapLate(s, input) ==
    IF s.index >= Len(s.deque)
    THEN Panic(s)
    ELSE LET deque1 == [s.deque EXCEPT ![s.index + 1] = input]
             index1 == IF s.index + 1 <= s.period THEN s.index + 1 ELSE 0
             count1 == IF s.count < s.period THEN s.count + 1 ELSE s.count
             s1 == [s EXCEPT !.deque = deque1, !.index = index1, !.count = count1]
         IN IF count1 > Len(deque1)
            THEN Panic(s1)
            ELSE Returned(s1, FoldMin(INFINITY, SubSeq(deque1, 1, count1)))

LLVNext(s, input) ==
    IF s.index >= Len(s.deque)
    THEN Panic(s)
    ELSE LET deque1 == [s.deque EXCEPT ![s.index + 1] = input]
             index1 == IF s.index + 1 < s.period THEN s.index + 1 ELSE 0
             count1 == IF s.count < s.period THEN s.count + 1 ELSE s.count
             s1 == [s EXCEPT !.deque = deque1, !.index = index1, !.count = count1]
         IN IF count1 > Len(deque1)
            THEN Panic(s1)
            ELSE Returned(s1, FoldMin(INFINITY, SubSeq(deque1, 1, count1)))

\* LLVReset that leaves the slots as they are
LLVResetKeepSlots(s) == Returned([s EXCEPT !.index = 0, !.count = 0], NoOutput)

LLVReset(s) ==
    IF s.period > Len(s.deque)
    THEN Panic([s EXCEPT !.index = 0, !.count = 0])
    ELSE Returned([s EXCEPT !.index = 0, !.count = 0,
                            !.deque = [i \in 1..Len(s.deque) |->
                                         IF i <= s.period THEN INFINITY ELSE s.deque[i]]],
                  NoOutput)

(***************************************************************************)
(* CrossAbove                                                              *)
(***************************************************************************)
CrossAboveNew(threshold) == Ok([threshold |-> threshold, deque |-> <<>>])

\* DropFront popping at the back
RECURSIVE DropBack(_)
DropBack(deque) == IF Len(deque) > 2 THEN DropBack(SubSeq(deque, 1, Len(deque) - 1)) ELSE deque

\* while deque.len() > 2 { deque.pop_front(); }
RECURSIVE DropFront(_)
DropFront(deque) == IF Len(deque) > 2 THEN DropFront(Tail(deque)) ELSE deque

CrossAboveFromState(threshold, deque) ==
    Ok([threshold |-> threshold, deque |-> DropFront(deque)])

\* CrossAboveNext firing on a current sample equal to the threshold
CrossAboveNextLoose(s, input) ==
    LET d0 == IF Len(s.deque) = 2 THEN Tail(s.deque) ELSE s.deque
        d == Append(d0, input)
        s1 == [s EXCEPT !.deque = d]
    IN IF Len(d) < 2
       THEN Returned(s1, FALSE)
       ELSE Returned(s1, FLe(d[1], s.threshold) /\ FGe(d[2], s.threshold))

\* CrossAboveNext as a level signal: the previous sample is not tested
CrossAboveNextLevel(s, input) ==
    LET d0 == IF Len(s.deque) = 2 THEN Tail(s.deque) ELSE s.deque
        d == Append(d0, input)
        s1 == [s EXCEPT !.deque = d]
    IN IF Len(d) < 2
       THEN Returned(s1, FALSE)
       ELSE Returned(s1, FGt(d[2], s.threshold))

\* CrossAboveNext with a strict test of the previous sample
CrossAboveNextStrict(s, input) ==
    LET d0 == IF Len(s.deque) = 2 THEN Tail(s.deque) ELSE s.deque
        d == Append(d0, input)
        s1 == [s EXCEPT !.deque = d]
    IN IF Len(d) < 2
       THEN Returned(s1, FALSE)
       ELSE Returned(s1, FLt(d[1], s.threshold) /\ FGt(d[2], s.threshold))

\* deque[0] and deque[1] of the source are d[1] and d[2] here; VecDeque's
\* index panics past the end
CrossAboveNext(s, input) ==
    LET d0 == IF Len(s.deque) = 2 THEN Tail(s.deque) ELSE s.deque
        d == Append(d0, input)
        s1 == [s EXCEPT !.deque = d]
    IN IF Len(d) < 2
       THEN Returned(s1, FALSE)
       ELSE Returned(s1, FLe(d[1], s.threshold) /\ FGt(d[2], s.threshold))

\* (self.threshold, self.deque[0], self.deque[1]); the receiver is not changed
CrossAboveState(s) ==
    IF Len(s.deque) < 2
    THEN Panic(s)
    ELSE Returned(s, <<s.threshold, s.deque[1], s.deque[2]>>)

CrossAboveReset(s) == Returned([s EXCEPT !.deque = <<>>], NoOutput)

(***************************************************************************)
(* CrossBelow                                                              *)
(***************************************************************************)
CrossBelowNew(threshold) == Ok([threshold |-> threshold, deque |-> <<>>])

\* CrossBelowNext that never evicts: the oldest two samples are compared
CrossBelowNextNoEvict(s, input) ==
    LET d == Append(s.deque, input)
        s1 == [s EXCEPT !.deque = d]
    IN IF Len(d) < 2
       THEN Returned(s1, FALSE)
       ELSE Returned(s1, FGe(d[1], s.threshold) /\ FLt(d[2], s.threshold))

\* CrossBelowNext with a strict test of the previous sample
CrossBelowNextStrict(s, input) ==
    LET d0 == IF Len(s.deque) = 2 THEN Tail(s.deque) ELSE s.deque
        d == Append(d0, input)
        s1 == [s EXCEPT !.deque = d]
    IN IF Len(d) < 2
       THEN Returned(s1, FALSE)
       ELSE Returned(s1, FGt(d[1], s.threshold) /\ FLt(d[2], s.threshold))

CrossBelowNext(s, input) ==
    LET d0 == IF Len(s.deque) = 2 THEN Tail(s.deque) ELSE s.deque
        d == Append(d0, input)
        s1 == [s EXCEPT !.deque = d]
    IN IF Len(d) < 2
       THEN Returned(s1, FALSE)
       ELSE Returned(s1, FGe(d[1], s.threshold) /\ FLt(d[2], s.threshold))

CrossBelowReset(s) == Returned([s EXCEPT !.deque = <<>>], NoOutput)

(***************************************************************************)
(* Exact arithmetic on finite f64 values                                   *)
(***************************************************************************)
Abs(n) == IF n < 0 THEN -n ELSE n

RECURSIVE GCD(_, _)
GCD(a, b) == IF b = 0 THEN a ELSE GCD(b, a % b)

\* the reduced fraction n/d, d # 0
Frac(n, d) ==
    LET g == GCD(Abs(n), Abs(d))
        sgn == IF d < 0 THEN -1 ELSE 1
    IN <<sgn * (n \div g), sgn * (d \div g)>>

Sign(n) == IF n > 0 THEN 1 ELSE IF n < 0 THEN -1 ELSE 0
FNeg(a) == <<-a[1], a[2]>>

\* NaN is contagious; inf - inf, 0 * inf, inf / inf and 0 / 0 are NaN; x / 0 is
\* an infinity (the sign of a zero is not kept: every zero is +0.0)
FAdd(a, b) ==
    CASE IsNaN(a) \/ IsNaN(b) -> NaN
      [] ~IsFinite(a) -> IF ~IsFinite(b) /\ b # a THEN NaN ELSE a
      [] ~IsFinite(b) -> b
      [] OTHER -> Frac(a[1] * b[2] + b[1] * a[2], a[2] * b[2])
FSub(a, b) == FAdd(a, FNeg(b))
FMul(a, b) ==
    CASE IsNaN(a) \/ IsNaN(b) -> NaN
      [] ~IsFinite(a) \/ ~IsFinite(b) ->
            IF a[1] = 0 \/ b[1] = 0 THEN NaN ELSE <<Sign(a[1]) * Sign(b[1]), 0>>
      [] OTHER -> Frac(a[1] * b[1], a[2] * b[2])
FDiv(a, b) ==
    CASE IsNaN(a) \/ IsNaN(b) -> NaN
      [] ~IsFinite(a) -> IF ~IsFinite(b) THEN NaN
                         ELSE <<Sign(a[1]) * (IF b[1] < 0 THEN -1 ELSE 1), 0>>
      [] ~IsFinite(b) -> F(0)
      [] b[1] = 0 -> <<Sign(a[1]), 0>>
      [] OTHER -> Frac(a[1] * b[2], a[2] * b[1])

\* iter().sum::<f64>(), left to right from 0.0
RECURSIVE FSum(_, _)
FSum(acc, s) == IF s = <<>> THEN acc ELSE FSum(FAdd(acc, Head(s)), Tail(s))

(***************************************************************************)
(* LinearRegressionPrediction                                              *)
(***************************************************************************)
\* LRPNew with the mean of 0..period-1 instead of 1..period
LRPNewMeanOff(period) ==
    IF period = 0
    THEN Err("InvalidParameter")
    ELSE Ok([period |-> period, deque |-> <<>>,
             x |-> [i \in 1..period |-> F(i)],
             mean_x |-> FDiv(FSub(F(period), F(1)), F(2))])

\* LRPNew without the check of period
LRPNewUnchecked(period) ==
    Ok([period |-> period, deque |-> <<>>,
        x |-> [i \in 1..period |-> F(i)],
        mean_x |-> FDiv(FAdd(F(period), F(1)), F(2))])

LRPNew(period) ==
    IF period = 0
    THEN Err("InvalidParameter")
    ELSE Ok([period |-> period, deque |-> <<>>,
             x |-> [i \in 1..period |-> F(i)],
             mean_x |-> FDiv(FAdd(F(period), F(1)), F(2))])

\* the loop over self.x.iter().zip(slice.iter()): it stops at the shorter of
\* the two; acc is [cov_xy, var_x] after the first i - 1 pairs
RECURSIVE Moments(_, _, _, _, _, _)
Moments(acc, i, x, slice, mean_x, mean_y) ==
    IF i > Len(x) \/ i > Len(slice)
    THEN acc
    ELSE LET dx == FSub(x[i], mean_x)
         IN Moments([cov_xy |-> FAdd(acc.cov_xy, FMul(dx, FSub(slice[i], mean_y))),
                     var_x |-> FAdd(acc.var_x, FMul(dx, dx))],
                    i + 1, x, slice, mean_x, mean_y)

\* LRPNext averaging over the nominal period instead of the samples held
LRPNextMeanOverPeriod(s, input) ==
    LET d0 == IF Len(s.deque) = s.period THEN Tail(s.deque) ELSE s.deque
        slice == Append(d0, input)
        s1 == [s EXCEPT !.deque = slice]
        n == F(Len(slice))
        mean_y == FDiv(FSum(F(0), slice), F(s.period))
        m == Moments([cov_xy |-> F(0), var_x |-> F(0)], 1, s.x, slice, s.mean_x, mean_y)
        slope == IF m.var_x # F(0) THEN FDiv(m.cov_xy, m.var_x) ELSE F(0)
        intercept == FSub(mean_y, FMul(slope, s.mean_x))
    IN Returned(s1, FAdd(FMul(slope, FAdd(n, F(1))), intercept))

\* LRPNext recomputing mean_x over the positions it holds
LRPNextRecenter(s, input) ==
    LET d0 == IF Len(s.deque) = s.period THEN Tail(s.deque) ELSE s.deque
        slice == Append(d0, input)
        n == F(Len(slice))
        s1 == [s EXCEPT !.deque = slice, !.mean_x = FDiv(FAdd(n, F(1)), F(2))]
        mean_y == FDiv(FSum(F(0), slice), n)
        m == Moments([cov_xy |-> F(0), var_x |-> F(0)], 1, s.x, slice, s1.mean_x, mean_y)
        slope == IF m.var_x # F(0) THEN FDiv(m.cov_xy, m.var_x) ELSE F(0)
        intercept == FSub(mean_y, FMul(slope, s1.mean_x))
    IN Returned(s1, FAdd(FMul(slope, FAdd(n, F(1))), intercept))

\* LRPNext dividing by var_x without the test for zero
LRPNextNoGuard(s, input) ==
    LET d0 == IF Len(s.deque) = s.period THEN Tail(s.deque) ELSE s.deque
        slice == Append(d0, input)
        s1 == [s EXCEPT !.deque = slice]
        n == F(Len(slice))
        mean_y == FDiv(FSum(F(0), slice), n)
        m == Moments([cov_xy |-> F(0), var_x |-> F(0)], 1, s.x, slice, s.mean_x, mean_y)
        slope == FDiv(m.cov_xy, m.var_x)
        intercept == FSub(mean_y, FMul(slope, s.mean_x))
    IN Returned(s1, FAdd(FMul(slope, FAdd(n, F(1))), intercept))

\* LRPNext extrapolating one step past the nominal period
LRPNextNominal(s, input) ==
    LET d0 == IF Len(s.deque) = s.period THEN Tail(s.deque) ELSE s.deque
        slice == Append(d0, input)
        s1 == [s EXCEPT !.deque = slice]
        n == F(Len(slice))
        mean_y == FDiv(FSum(F(0), slice), n)
        m == Moments([cov_xy |-> F(0), var_x |-> F(0)], 1, s.x, slice, s.mean_x, mean_y)
        slope == IF m.var_x # F(0) THEN FDiv(m.cov_xy, m.var_x) ELSE F(0)
        intercept == FSub(mean_y, FMul(slope, s.mean_x))
    IN Returned(s1, FAdd(FMul(slope, FAdd(F(s.period), F(1))), intercept))

LRPNext(s, input) ==
    LET d0 == IF Len(s.deque) = s.period THEN Tail(s.deque) ELSE s.deque
        slice == Append(d0, input)
        s1 == [s EXCEPT !.deque = slice]
    IN IF slice = <<>>
       THEN Returned(s1, F(0))
       ELSE LET n == F(Len(slice))
                mean_y == FDiv(FSum(F(0), slice), n)
                m == Moments([cov_xy |-> F(0), var_x |-> F(0)], 1, s.x, slice, s.mean_x, mean_y)
                slope == IF m.var_x # F(0) THEN FDiv(m.cov_xy, m.var_x) ELSE F(0)
                intercept == FSub(mean_y, FMul(slope, s.mean_x))
            IN Returned(s1, FAdd(FMul(slope, FAdd(n, F(1))), intercept))

LRPReset(s) == Returned([s EXCEPT !.deque = <<>>], NoOutput)

(***************************************************************************)
(* Inputs                                                                  *)
(***************************************************************************)
Periods == 0..MaxPeriod
ExtSamples == {NaN, NEG_INFINITY, INFINITY} \cup {F(n) : n \in {7, 8, 10, 12, 13}}
EdgeSamples == {F(n) : n \in {8, 9, 10, 11, 12}}
Thresholds == {F(10), F(11)}
LrpSamples == {F(n) : n \in 1..5} \cup {INFINITY}

\* the persisted queues handed to from_state
RECURSIVE Queues(_)
Queues(n) ==
    IF n = 0
    THEN {<<>>}
    ELSE Queues(n - 1) \cup {Append(q, v) : q \in {r \in Queues(n - 1) : Len(r) = n - 1},
                                            v \in {F(9), F(11)}}

(***************************************************************************)
(* State machine                                                           *)
(***************************************************************************)
Init ==
    /\ kind = "none"
    /\ self = NoInstance
    /\ err = "none"
    /\ panicked = FALSE
    /\ call = [op |-> "none"]
    /\ hist = <<>>
    /\ outs = <<>>

\* no constructor has been called yet
Unbuilt == kind = "none" /\ err = "none"

\* a constructor call: the instance exists only when the constructor returned Ok
Construct(k, r, c) ==
    /\ err' = r.err
    /\ kind' = IF r.err = "none" THEN k ELSE "none"
    /\ self' = r.self
    /\ call' = c
    /\ UNCHANGED <<panicked, hist, outs>>

\* a call of next on the live instance
Advance(r, input) ==
    /\ self' = r.self
    /\ panicked' = r.panic
    /\ call' = [op |-> "next", input |-> input]
    /\ hist' = Append(hist, input)
    /\ outs' = Append(outs, r.out)
    /\ UNCHANGED <<kind, err>>

\* a call of reset on the live instance; `after` is the number of next calls
\* since construction or the previous reset, `again` tells a reset that
\* directly follows a reset
Clear(r) ==
    /\ self' = r.self
    /\ panicked' = r.panic
    /\ call' = [op |-> "reset", after |-> Len(hist), again |-> call.op = "reset"]
    /\ hist' = <<>>
    /\ outs' = <<>>
    /\ UNCHANGED <<kind, err>>

NewHHV ==
    /\ Unbuilt
    /\ \E p \in Periods :
          Construct("HHV", HHVNew(p), [op |-> "new", type |-> "HHV", period |-> p])
NewLLV ==
    /\ Unbuilt
    /\ \E p \in Periods :
          Construct("LLV", LLVNew(p), [op |-> "new", type |-> "LLV", period |-> p])

NextHHV ==
    /\ kind = "HHV" /\ ~panicked /\ Len(hist) < MaxExtSteps
    /\ \E input \in ExtSamples : Advance(HHVNext(self, input), input)

NextLLV ==
    /\ kind = "LLV" /\ ~panicked /\ Len(hist) < MaxExtSteps
    /\ \E input \in ExtSamples : Advance(LLVNext(self, input), input)

ResetHHV == kind = "HHV" /\ ~panicked /\ Clear(HHVReset(self))
ResetLLV == kind = "LLV" /\ ~panicked /\ Clear(LLVReset(self))

NewLRP ==
    /\ Unbuilt
    /\ \E p \in Periods :
          Construct("LRP", LRPNew(p), [op |-> "new", type |-> "LRP", period |-> p])

NextLRP ==
    /\ kind = "LRP" /\ ~panicked /\ Len(hist) < MaxLrpSteps
    /\ \E input \in LrpSamples : Advance(LRPNext(self, input), input)

ResetLRP == kind = "LRP" /\ ~panicked /\ Clear(LRPReset(self))

NewCrossAbove ==
    /\ Unbuilt
    /\ \E th \in Thresholds :
        Construct("CrossAbove", CrossAboveNew(th),
                  [op |-> "new", type |-> "CrossAbove", threshold |-> th])

FromStateCrossAbove ==
    /\ Unbuilt
    /\ \E th \in Thresholds, q \in Queues(MaxQueue) :
        Construct("CrossAbove", CrossAboveFromState(th, q),
                  [op |-> "from_state", type |-> "CrossAbove", threshold |-> th, deque |-> q])

NewCrossBelow ==
    /\ Unbuilt
    /\ \E th \in Thresholds :
        Construct("CrossBelow", CrossBelowNew(th),
                  [op |-> "new", type |-> "CrossBelow", threshold |-> th])

NextCrossAbove ==
    /\ kind = "CrossAbove" /\ ~panicked /\ Len(hist) < MaxEdgeSteps
    /\ \E input \in EdgeSamples : Advance(CrossAboveNext(self, input), input)

NextCrossBelow ==
    /\ kind = "CrossBelow" /\ ~panicked /\ Len(hist) < MaxEdgeSteps
    /\ \E input \in EdgeSamples : Advance(CrossBelowNext(self, input), input)

ResetCrossAbove == kind = "CrossAbove" /\ ~panicked /\ Clear(CrossAboveReset(self))
ResetCrossBelow == kind = "CrossBelow" /\ ~panicked /\ Clear(CrossBelowReset(self))

\* a call of state(): it borrows the instance immutably
StateCrossAbove ==
    /\ kind = "CrossAbove" /\ ~panicked
    /\ LET r == CrossAboveState(self)
       IN /\ self' = r.self
          /\ panicked' = r.panic
          /\ call' = [op |-> "state", before |-> self, out |-> r.out]
    /\ UNCHANGED <<kind, err, hist, outs>>

\* a snapshot taken with state() and an instance rebuilt from it with
\* from_state, which replaces the original; the snapshot's samples are handed
\* over oldest first
RoundTripCrossAbove ==
    /\ kind = "CrossAbove" /\ ~panicked
    /\ LET snap == CrossAboveState(self)
       IN IF snap.panic
          THEN /\ panicked' = TRUE
               /\ self' = snap.self
          ELSE /\ panicked' = FALSE
               /\ self' = CrossAboveFromState(snap.out[1], <<snap.out[2], snap.out[3]>>).self
    /\ call' = [op |-> "roundtrip", before |-> self]
    /\ UNCHANGED <<kind, err, hist, outs>>

\* the trackers alone
NextExt == NewHHV \/ NewLLV \/ NextHHV \/ NextLLV \/ ResetHHV \/ ResetLLV

SpecExt == Init /\ [][NextExt]_vars

\* the edge detectors built with new
NextEdge ==
    \/ NewCrossAbove \/ NewCrossBelow
    \/ NextCrossAbove \/ NextCrossBelow
    \/ ResetCrossAbove \/ ResetCrossBelow

SpecEdge == Init /\ [][NextEdge]_vars

\* the forecaster alone
NextLrp == NewLRP \/ NextLRP \/ ResetLRP

SpecLrp == Init /\ [][NextLrp]_vars

\* CrossAbove with its persistence interface
NextPersist ==
    \/ NewCrossAbove \/ FromStateCrossAbove
    \/ NextCrossAbove \/ ResetCrossAbove \/ StateCrossAbove \/ RoundTripCrossAbove

SpecPersist == Init /\ [][NextPersist]_vars

\* the five indicators with their constructors, next and reset
NextOps ==
    \/ NewHHV \/ NewLLV \/ NewLRP \/ NewCrossAbove \/ NewCrossBelow \/ FromStateCrossAbove
    \/ NextHHV \/ NextLLV \/ NextLRP \/ NextCrossAbove \/ NextCrossBelow
    \/ ResetHHV \/ ResetLLV \/ ResetLRP \/ ResetCrossAbove \/ ResetCrossBelow

SpecOps == Init /\ [][NextOps]_vars

Next ==
    \/ NewHHV \/ NewLLV \/ NewLRP \/ NewCrossAbove \/ NewCrossBelow \/ FromStateCrossAbove
    \/ NextHHV \/ NextLLV \/ NextLRP \/ NextCrossAbove \/ NextCrossBelow
    \/ ResetHHV \/ ResetLLV \/ ResetLRP \/ ResetCrossAbove \/ ResetCrossBelow
    \/ StateCrossAbove \/ RoundTripCrossAbove

Spec == Init /\ [][Next]_vars

(***************************************************************************)
(* Properties                                                              *)
(***************************************************************************)
Last(s) == s[Len(s)]
LastN(s, n) == SubSeq(s, Len(s) - n + 1, Len(s))
Least(a, b) == IF a < b THEN a ELSE b
Nums(s) == [i \in 1..Len(s) |-> F(s[i])]

\* the last min(period, t) inputs, oldest first
Window == LastN(hist, Least(self.period, Len(hist)))

NoNaN(w) == \A i \in 1..Len(w) : ~IsNaN(w[i])
AllFinite(w) == \A i \in 1..Len(w) : IsFinite(w[i])
IsMaxOf(m, w) == (\E i \in 1..Len(w) : w[i] = m) /\ (\A i \in 1..Len(w) : FLe(w[i], m))
IsMinOf(m, w) == (\E i \in 1..Len(w) : w[i] = m) /\ (\A i \in 1..Len(w) : FLe(m, w[i]))

Tracked == kind \in {"HHV", "LLV"} /\ ~panicked /\ hist # <<>>

\* C1 as stated: for every input sequence the t-th call of next returns the
\* maximum (HHV) or minimum (LLV) of the last min(p, t) inputs: a value among
\* those inputs that bounds them all, hence never a sentinel that was not fed.
C1_AnyInput ==
    Tracked =>
        /\ kind = "HHV" => IsMaxOf(Last(outs), Window)
        /\ kind = "LLV" => IsMinOf(Last(outs), Window)

\* C1 (amended): when none of the last min(p, t) inputs is NaN, the t-th call of
\* next returns exactly their maximum (HHV) or minimum (LLV); when they are all
\* finite the result is finite, so the sentinel is not returned.  With period 3,
\* 10,12,8,13 gives 10,12,12,13 (HHV) and 10,8,12,7 gives 10,8,8,7 (LLV).
C1_Extremum ==
    Tracked =>
        /\ (kind = "HHV" /\ NoNaN(Window)) => IsMaxOf(Last(outs), Window)
        /\ (kind = "LLV" /\ NoNaN(Window)) => IsMinOf(Last(outs), Window)
        /\ AllFinite(Window) => IsFinite(Last(outs))
        /\ (kind = "HHV" /\ self.period = 3 /\ hist = Nums(<<10, 12, 8, 13>>))
              => outs = Nums(<<10, 12, 12, 13>>)
        /\ (kind = "LLV" /\ self.period = 3 /\ hist = Nums(<<10, 8, 12, 7>>))
              => outs = Nums(<<10, 8, 8, 7>>)

\* the maximum 13 has left a full window of 3: the result is the maximum of 10, 8, 7
C1_Witness ==
    /\ kind = "HHV" /\ ~panicked /\ self.period = 3
    /\ hist = Nums(<<13, 10, 8, 7>>)
    /\ Last(outs) = F(10)

(***************************************************************************)
(* Edge detectors                                                          *)
(***************************************************************************)
\* C2: a CrossAbove built with new returns false on the first call of next, and
\* on every later call true exactly when the previous input <= threshold and the
\* current input > threshold (inputs counted since construction or the last
\* reset); threshold 10 and 9,11,12,9,11 give false,true,false,false,true.
C2_CrossAbove ==
    (kind = "CrossAbove" /\ hist # <<>>) =>
        LET t == Len(hist)
        IN /\ ~panicked
           /\ t = 1 => Last(outs) = FALSE
           /\ t > 1 => Last(outs) = (FLe(hist[t - 1], self.threshold) /\ FGt(hist[t], self.threshold))
           /\ (self.threshold = F(10) /\ hist = Nums(<<9, 11, 12, 9, 11>>))
                 => outs = <<FALSE, TRUE, FALSE, FALSE, TRUE>>

C2_Witness ==
    /\ kind = "CrossAbove" /\ self.threshold = F(10)
    /\ hist = Nums(<<9, 11, 12, 9, 11>>)
    /\ outs = <<FALSE, TRUE, FALSE, FALSE, TRUE>>

\* C3: a CrossBelow built with new returns false on the first call of next, and
\* on every later call true exactly when the previous input >= threshold and the
\* current input < threshold (inputs counted since construction or the last
\* reset); threshold 10 and 11,9,8,11,9 give false,true,false,false,true.
C3_CrossBelow ==
    (kind = "CrossBelow" /\ hist # <<>>) =>
        LET t == Len(hist)
        IN /\ ~panicked
           /\ t = 1 => Last(outs) = FALSE
           /\ t > 1 => Last(outs) = (FGe(hist[t - 1], self.threshold) /\ FLt(hist[t], self.threshold))
           /\ (self.threshold = F(10) /\ hist = Nums(<<11, 9, 8, 11, 9>>))
                 => outs = <<FALSE, TRUE, FALSE, FALSE, TRUE>>

C3_Witness ==
    /\ kind = "CrossBelow" /\ self.threshold = F(10)
    /\ hist = Nums(<<11, 9, 8, 11, 9>>)
    /\ outs = <<FALSE, TRUE, FALSE, FALSE, TRUE>>

(***************************************************************************)
(* Construction                                                            *)
(***************************************************************************)
HasPeriod(type) == type \in {"HHV", "LLV", "LRP"}

\* C4: new of HighestHighValue, LowestLowValue and LinearRegressionPrediction
\* returns InvalidParameter and no instance for period 0, and an instance of
\* that period for every period >= 1; new of CrossAbove and CrossBelow and
\* CrossAbove::from_state never return an error.
C4_Construction ==
    call.op \in {"new", "from_state"} =>
        /\ (HasPeriod(call.type) /\ call.period = 0)
              => err = "InvalidParameter" /\ kind = "none" /\ self = NoInstance
        /\ (HasPeriod(call.type) /\ call.period >= 1)
              => err = "none" /\ kind = call.type /\ self.period = call.period
        /\ ~HasPeriod(call.type)
              => err = "none" /\ kind = call.type /\ self.threshold = call.threshold

C4_Witness ==
    /\ call.op = "new" /\ call.type = "LRP" /\ call.period = 0
    /\ err = "InvalidParameter" /\ kind = "none"

(***************************************************************************)
(* reset                                                                   *)
(***************************************************************************)
NextOf(k, s, input) ==
    CASE k = "HHV" -> HHVNext(s, input)
      [] k = "LLV" -> LLVNext(s, input)
      [] k = "LRP" -> LRPNext(s, input)
      [] k = "CrossAbove" -> CrossAboveNext(s, input)
      [] k = "CrossBelow" -> CrossBelowNext(s, input)

ResetOf(k, s) ==
    CASE k = "HHV" -> HHVReset(s)
      [] k = "LLV" -> LLVReset(s)
      [] k = "LRP" -> LRPReset(s)
      [] k = "CrossAbove" -> CrossAboveReset(s)
      [] k = "CrossBelow" -> CrossBelowReset(s)

\* the instance new builds with the parameter of instance s
FreshLike(k, s) ==
    CASE k = "HHV" -> HHVNew(s.period).self
      [] k = "LLV" -> LLVNew(s.period).self
      [] k = "LRP" -> LRPNew(s.period).self
      [] k = "CrossAbove" -> CrossAboveNew(s.threshold).self
      [] k = "CrossBelow" -> CrossBelowNew(s.threshold).self

SamplesOf(k) ==
    CASE k \in {"HHV", "LLV"} -> ExtSamples
      [] k = "LRP" -> LrpSamples
      [] k \in {"CrossAbove", "CrossBelow"} -> EdgeSamples

\* the sequences over S of length at most n
RECURSIVE SeqsUpTo(_, _)
SeqsUpTo(S, n) ==
    IF n = 0
    THEN {<<>>}
    ELSE LET shorter == SeqsUpTo(S, n - 1)
         IN shorter \cup {Append(q, v) : q \in {r \in shorter : Len(r) = n - 1}, v \in S}

\* instances a and b of kind k return the same values on the inputs seq
RECURSIVE SameOutputs(_, _, _, _)
SameOutputs(k, a, b, seq) ==
    \/ seq = <<>>
    \/ LET ra == NextOf(k, a, Head(seq))
           rb == NextOf(k, b, Head(seq))
       IN /\ ~ra.panic
          /\ ~rb.panic
          /\ ra.out = rb.out
          /\ SameOutputs(k, ra.self, rb.self, Tail(seq))

\* C5: for each of the five indicators, after any sequence of next calls a
\* second reset leaves the state the first reset left, and after reset the
\* outputs on any further input sequence are those of an instance freshly built
\* by new with the same period or threshold.
C5_Reset ==
    call.op = "reset" =>
        /\ ~panicked
        /\ ResetOf(kind, self) = Returned(self, NoOutput)
        /\ \A seq \in SeqsUpTo(SamplesOf(kind), MaxFuture) :
              SameOutputs(kind, self, FreshLike(kind, self), seq)

\* a tracker reset after its window had wrapped
C5_Witness ==
    /\ kind = "HHV" /\ call.op = "reset" /\ ~panicked
    /\ self.period >= 2 /\ call.after > self.period

\* a reset directly after a reset
C5_WitnessTwice ==
    /\ kind = "LRP" /\ call.op = "reset" /\ call.again

(***************************************************************************)
(* No failure after construction                                           *)
(***************************************************************************)
\* C9: after successful construction no interleaving of next and reset calls
\* on any of the five indicators fails: a tracker's write cursor stays below
\* period and its fill counter at most period (the buffer has period slots),
\* every call of next returns a value and there is no error outcome.
C9_NeverFails ==
    kind # "none" =>
        /\ ~panicked
        /\ err = "none"
        /\ Len(outs) = Len(hist)
        /\ kind \in {"HHV", "LLV"} =>
              /\ Len(self.deque) = self.period
              /\ self.index \in 0..(self.period - 1)
              /\ self.count \in 0..self.period

\* a minimum tracker of period 2 after three calls of next: the cursor has wrapped
C9_Witness ==
    /\ kind = "LLV" /\ ~panicked /\ self.period = 2
    /\ Len(hist) = 3 /\ Len(outs) = 3 /\ self.index = 1 /\ self.count = 2

(***************************************************************************)
(* Forecast                                                                *)
(***************************************************************************)
\* the forecast of C6 for period p and the held samples w, oldest first
Forecast(p, w) ==
    LET n == Len(w)
        mean_x == Frac(p + 1, 2)
        mean_y == FDiv(FSum(F(0), w), F(n))
        cov_xy == FSum(F(0), [i \in 1..n |-> FMul(FSub(F(i), mean_x), FSub(w[i], mean_y))])
        var_x == FSum(F(0), [i \in 1..n |-> FMul(FSub(F(i), mean_x), FSub(F(i), mean_x))])
        slope == IF var_x = F(0) THEN F(0) ELSE FDiv(cov_xy, var_x)
        intercept == FSub(mean_y, FMul(slope, mean_x))
    IN FAdd(FMul(slope, F(n + 1)), intercept)

\* C6: with n = min(period, calls so far) samples held after the push, next
\* returns slope * (n + 1) + intercept, where mean_y is the mean of the held
\* samples, cov_xy and var_x run over the positions 1..n with
\* mean_x = (period + 1) / 2, slope = cov_xy / var_x (0 when var_x = 0) and
\* intercept = mean_y - slope * mean_x; period 3 and 1,2,3,4,5 give 1,2,4,5,6.
C6_Forecast ==
    (kind = "LRP" /\ hist # <<>>) =>
        /\ ~panicked
        /\ Len(self.deque) = Least(self.period, Len(hist))
        /\ Last(outs) = Forecast(self.period, Window)
        /\ (self.period = 3 /\ hist = Nums(<<1, 2, 3, 4, 5>>))
              => outs = Nums(<<1, 2, 4, 5, 6>>)

C6_Witness ==
    /\ kind = "LRP" /\ self.period = 3
    /\ hist = Nums(<<1, 2, 3, 4, 5>>)
    /\ outs = Nums(<<1, 2, 4, 5, 6>>)

(***************************************************************************)
(* Persistence of CrossAbove                                               *)
(***************************************************************************)
\* C7: state() can be called at any point after construction (before any
\* sample, after one sample, after two or more, right after reset); it returns
\* the threshold and the held samples without failing and leaves the detector
\* as it was.
C7_StateAnyTime ==
    call.op = "state" =>
        /\ ~panicked
        /\ self = call.before
        /\ call.out[1] = self.threshold
        /\ \A i \in 1..Len(self.deque) : call.out[i + 1] = self.deque[i]

\* C8: from_state(threshold, q) never fails; a queue of more than 2 entries is
\* cut to its last 2 entries in their order, a queue of 0, 1 or 2 entries is
\* kept, and the threshold is stored as given.
C8_FromState ==
    call.op = "from_state" =>
        /\ err = "none" /\ kind = "CrossAbove" /\ ~panicked
        /\ self.threshold = call.threshold
        /\ Len(call.deque) <= 2 => self.deque = call.deque
        /\ Len(call.deque) > 2 => self.deque = LastN(call.deque, 2)

C8_Witness ==
    /\ call.op = "from_state" /\ kind = "CrossAbove"
    /\ call.deque = Nums(<<9, 11, 9>>)
    /\ self.deque = Nums(<<11, 9>>)

\* C10: a snapshot of a CrossAbove taken at any point of a run and rebuilt with
\* from_state gives an instance whose outputs on every further input sequence
\* are those of the original instance.
C10_RoundTrip ==
    call.op = "roundtrip" =>
        /\ ~panicked
        /\ \A seq \in SeqsUpTo(EdgeSamples, MaxFuture) :
              SameOutputs("CrossAbove", self, call.before, seq)

(***************************************************************************)
(* reset and the state after construction                                  *)
(***************************************************************************)
\* the instance after the calls next(seq[1]), ..., next(seq[n])
RECURSIVE AfterInputs(_, _, _)
AfterInputs(k, s, seq) ==
    IF seq = <<>> THEN s ELSE AfterInputs(k, NextOf(k, s, Head(seq)).self, Tail(seq))

\* the instance after the calls next(seq[1]), ..., next(seq[n]), reset()
AfterReset(k, s, seq) == ResetOf(k, AfterInputs(k, s, seq)).self

Sentinel(k) == IF k = "HHV" THEN NEG_INFINITY ELSE INFINITY

JustBuilt == call.op \in {"new", "from_state"} /\ kind # "none"

\* C11 as stated: for every indicator and every constructor path (new, and
\* from_state with any persisted queue), after any sequence of next calls
\* reset() leaves every state component equal to its value right after that
\* instance's construction.
C11_ResetRestoresBuilt ==
    JustBuilt =>
        \A seq \in SeqsUpTo(SamplesOf(kind), MaxFuture) : AfterReset(kind, self, seq) = self

\* C11 (amended): after any sequence of next calls reset() leaves a tracker with
\* every slot at its sentinel, cursor 0 and fill counter 0, and an edge detector
\* or the forecaster with an empty sample queue and its other fields unchanged;
\* that is the state right after construction for every instance built by new,
\* and for one built by from_state exactly when it was built with an empty queue.
C11_ResetState ==
    /\ JustBuilt =>
          \A seq \in SeqsUpTo(SamplesOf(kind), MaxFuture) :
              LET r == AfterReset(kind, self, seq)
              IN /\ kind \in {"HHV", "LLV"} =>
                       /\ r.index = 0 /\ r.count = 0 /\ r.period = self.period
                       /\ r.deque = [i \in 1..self.period |-> Sentinel(kind)]
                 /\ kind \notin {"HHV", "LLV"} => r = [self EXCEPT !.deque = <<>>]
                 /\ (r = self) <=> (call.op = "new" \/ self.deque = <<>>)
    /\ (call.op = "reset" /\ kind \in {"HHV", "LLV"}) =>
          /\ self.index = 0 /\ self.count = 0
          /\ self.deque = [i \in 1..self.period |-> Sentinel(kind)]
    /\ (call.op = "reset" /\ kind \notin {"HHV", "LLV"}) => self.deque = <<>>

\* a minimum tracker reset after its window had wrapped
C11_Witness ==
    /\ kind = "LLV" /\ call.op = "reset" /\ call.after > self.period /\ self.period >= 2
    /\ self.deque = [i \in 1..self.period |-> INFINITY]

\* a detector restored with samples, whose reset does not bring them back
C11_WitnessRestored ==
    /\ call.op = "from_state" /\ self.deque = Nums(<<11, 9>>)
    /\ AfterReset(kind, self, Nums(<<12>>)).deque = <<>>

(***************************************************************************)
(* Edge detectors: boundary, queue and edge-trigger properties             *)
(***************************************************************************)
Edge == kind \in {"CrossAbove", "CrossBelow"}

\* C12: an input equal to the threshold never makes next return true; when the
\* previous input equals the threshold, next returns true exactly when its input
\* is strictly greater than the threshold (CrossAbove) or strictly less than it
\* (CrossBelow).  Inputs are counted since construction or the last reset.
C12_Boundary ==
    (Edge /\ hist # <<>>) =>
        LET t == Len(hist)
            th == self.threshold
        IN /\ hist[t] = th => Last(outs) = FALSE
           /\ (t > 1 /\ hist[t - 1] = th /\ kind = "CrossAbove")
                 => Last(outs) = FGt(hist[t], th)
           /\ (t > 1 /\ hist[t - 1] = th /\ kind = "CrossBelow")
                 => Last(outs) = FLt(hist[t], th)

\* CrossAbove with threshold 10: 10 does not fire, the following 11 does
C12_Witness ==
    /\ kind = "CrossAbove" /\ self.threshold = F(10)
    /\ hist = Nums(<<9, 10, 11>>)
    /\ outs = <<FALSE, FALSE, TRUE>>

\* C13: a CrossAbove or CrossBelow built with new always holds 0, 1 or 2
\* samples: after t calls of next since construction or the last reset, exactly
\* the last min(2, t) inputs, oldest first; next and reset never change the
\* threshold.
C13_Queue ==
    Edge =>
        /\ Len(self.deque) \in {0, 1, 2}
        /\ self.deque = LastN(hist, Least(2, Len(hist)))
        /\ \A input \in EdgeSamples : NextOf(kind, self, input).self.threshold = self.threshold
        /\ ResetOf(kind, self).self.threshold = self.threshold
        /\ self.threshold \in Thresholds

\* after four inputs the queue holds the last two of them
C13_Witness ==
    /\ kind = "CrossBelow" /\ self.threshold = F(11)
    /\ hist = Nums(<<8, 12, 9, 10>>)
    /\ self.deque = Nums(<<9, 10>>)

\* C18: with no reset in between, neither detector returns true on two
\* consecutive calls of next; between two true outputs of CrossAbove there is an
\* input <= threshold, between two true outputs of CrossBelow an input >=
\* threshold.
C18_EdgeTriggered ==
    Edge =>
        /\ \A i \in 1..(Len(outs) - 1) : ~(outs[i] /\ outs[i + 1])
        /\ \A i \in 1..Len(outs) : \A j \in (i + 1)..Len(outs) :
              (outs[i] /\ outs[j]) =>
                  \E k \in (i + 1)..(j - 1) :
                      IF kind = "CrossAbove"
                      THEN FLe(hist[k], self.threshold)
                      ELSE FGe(hist[k], self.threshold)

\* the value stays above the threshold and fires once, then dips and fires again
C18_Witness ==
    /\ kind = "CrossAbove" /\ self.threshold = F(10)
    /\ hist = Nums(<<9, 11, 12, 10, 12>>)
    /\ outs = <<FALSE, TRUE, FALSE, FALSE, TRUE>>

(***************************************************************************)
(* Forecaster: steady state, variance, frame                               *)
(***************************************************************************)
\* the ordinary least-squares line through (1, w[1]), ..., (p, w[p]) from the
\* normal equations, evaluated at position p + 1
LeastSquaresAt(p, w) ==
    LET Sx == FSum(F(0), [i \in 1..p |-> F(i)])
        Sy == FSum(F(0), w)
        Sxx == FSum(F(0), [i \in 1..p |-> F(i * i)])
        Sxy == FSum(F(0), [i \in 1..p |-> FMul(F(i), w[i])])
        b == FDiv(FSub(FMul(F(p), Sxy), FMul(Sx, Sy)), FSub(FMul(F(p), Sxx), FMul(Sx, Sx)))
        a == FDiv(FSub(Sy, FMul(b, Sx)), F(p))
    IN FAdd(a, FMul(b, F(p + 1)))

\* w[i] = a + b * i for some a and b: the steps between neighbours are equal
OnALine(w) == \A i \in 2..(Len(w) - 1) : FSub(w[i + 1], w[i]) = FSub(w[i], w[i - 1])

SteadyLrp == kind = "LRP" /\ ~panicked /\ self.period >= 2 /\ Len(hist) >= self.period

HeldMoments(s) ==
    Moments([cov_xy |-> F(0), var_x |-> F(0)], 1, s.x, s.deque, s.mean_x,
            FDiv(FSum(F(0), s.deque), F(Len(s.deque))))

AfterLrpNext == kind = "LRP" /\ ~panicked /\ call.op = "next"

\* the claim as stated: var_x = 0 exactly when one sample is held
C15_ZeroVarianceIffSingle ==
    AfterLrpNext => (HeldMoments(self).var_x = F(0) <=> Len(self.deque) = 1)

\* C15: var_x = 0, and the fallback slope 0 is taken, exactly when the period
\* is 1 (where one sample is always held); with period >= 2 var_x is non-zero
\* at every fill level, a single held sample gives cov_xy = 0 and hence the
\* slope 0 / var_x = 0, and with n >= 2 the slope is cov_xy / var_x; the
\* division never has a zero divisor and the output is finite.
C15_ZeroVariance ==
    AfterLrpNext =>
        LET m == HeldMoments(self)
            n == Len(self.deque)
        IN /\ m.var_x = F(0) <=> self.period = 1
           /\ n >= 2 => m.var_x # F(0)
           /\ (n = 1 /\ AllFinite(self.deque)) => m.cov_xy = F(0)
           /\ FGe(m.var_x, F(0)) /\ IsFinite(m.var_x)
           /\ AllFinite(self.deque) => IsFinite(Last(outs))
           /\ m.var_x # F(0) =>
                 Last(outs) = FAdd(FMul(FDiv(m.cov_xy, m.var_x), F(n + 1)),
                                   FSub(FDiv(FSum(F(0), self.deque), F(n)),
                                        FMul(FDiv(m.cov_xy, m.var_x), self.mean_x)))
           /\ m.var_x = F(0) => Last(outs) = Last(hist)

\* period 3, one sample held: var_x = (1 - 2)^2 = 1, not 0
C15_Witness ==
    /\ AfterLrpNext /\ self.period = 3 /\ Len(self.deque) = 1
    /\ HeldMoments(self).var_x = F(1)
    /\ Last(outs) = Last(hist)

\* period 1: the only state with var_x = 0
C15_WitnessFallback ==
    /\ AfterLrpNext /\ self.period = 1 /\ Len(hist) = 2
    /\ HeldMoments(self).var_x = F(0)

\* C16: next and reset of a forecaster never change period, x = [1..period] or
\* mean_x = (period + 1) / 2; they change only the sample queue, which after t
\* calls of next since construction or the last reset holds the last
\* min(period, t) inputs in arrival order, and which reset leaves empty.
C16_Frame ==
    (kind = "LRP" /\ ~panicked) =>
        /\ self.period \in 1..MaxPeriod
        /\ self.x = [i \in 1..self.period |-> F(i)]
        /\ self.mean_x = Frac(self.period + 1, 2)
        /\ self.deque = Window
        /\ Len(self.deque) = Least(self.period, Len(hist))
        /\ call.op = "reset" => self.deque = <<>> /\ hist = <<>>
        /\ \A input \in {F(1), INFINITY} :
              LET pushed == Append(self.deque, input)
              IN LRPNext(self, input).self =
                    [self EXCEPT !.deque = LastN(pushed, Least(self.period, Len(pushed)))]
        /\ LRPReset(self).self = [self EXCEPT !.deque = <<>>]

\* period 2 after three inputs: the oldest was evicted, the rest is as built
C16_Witness ==
    /\ kind = "LRP" /\ call.op = "next" /\ self.period = 2
    /\ hist = Nums(<<5, 1, 4>>)
    /\ self = [period |-> 2, deque |-> Nums(<<1, 4>>), x |-> Nums(<<1, 2>>), mean_x |-> Frac(3, 2)]

\* a reset after inputs: only the queue was emptied
C16_WitnessReset ==
    /\ kind = "LRP" /\ call.op = "reset" /\ call.after = 3 /\ self.period = 3
    /\ self = [period |-> 3, deque |-> <<>>, x |-> Nums(<<1, 2, 3>>), mean_x |-> F(2)]

(***************************************************************************)
(* Extremum trackers: cursor and fill counter                              *)
(***************************************************************************)
\* C17: after t calls of next since construction or the last reset the cursor
\* is t mod period and the fill counter is min(t, period); so the cursor is in
\* 0..period-1, the counter in 0..period, a counter below the period equals
\* the cursor, and the slots at (0-based) positions >= the counter hold the
\* sentinel.  The slots below it hold the latest inputs, each at its arrival
\* number modulo the period.
C17_CursorAndCount ==
    kind \in {"HHV", "LLV"} =>
        LET t == Len(hist)
        IN /\ ~panicked
           /\ Len(self.deque) = self.period
           /\ self.index = t % self.period
           /\ self.count = Least(t, self.period)
           /\ 0 <= self.index /\ self.index < self.period
           /\ 0 <= self.count /\ self.count <= self.period
           /\ self.count < self.period => self.index = self.count
           /\ \A i \in (self.count + 1)..self.period : self.deque[i] = Sentinel(kind)
           /\ \A j \in 1..t :
                 j > t - self.period => self.deque[((j - 1) % self.period) + 1] = hist[j]

\* period 3 after four inputs: the cursor has wrapped to 1, the counter is 3
C17_Witness ==
    /\ kind = "LLV" /\ ~panicked /\ self.period = 3
    /\ hist = Nums(<<10, 8, 12, 7>>)
    /\ self.index = 1 /\ self.count = 3
    /\ self.deque = Nums(<<7, 8, 12>>)

\* period 3 after one input: cursor = counter = 1, two sentinel slots remain
C17_WitnessWarmUp ==
    /\ kind = "HHV" /\ ~panicked /\ self.period = 3
    /\ hist = Nums(<<10>>)
    /\ self.index = 1 /\ self.count = 1
    /\ self.deque = <<F(10), NEG_INFINITY, NEG_INFINITY>>

(***************************************************************************)
(* Forecaster: constant runs                                               *)
(***************************************************************************)
AllEqual(w) == \A i \in 1..Len(w) : w[i] = w[1]

\* the claim as stated: the first call returns its input, and a queue of equal
\* samples returns that sample, whatever the sample is
C19_FixedPointAnyInput ==
    AfterLrpNext =>
        /\ Len(hist) = 1 => Last(outs) = hist[1]
        /\ AllEqual(self.deque) => Last(outs) = self.deque[1]

\* C19 (amended): the first call of next after construction or reset returns
\* its input when the input is finite, and whenever all held samples equal the
\* same finite value c, at any fill level, next returns c.  A held sample of
\* +infinity gives mean_y = +infinity and yi - mean_y = NaN: with period 1 the
\* zero-variance fallback still returns +infinity, with period >= 2 the
\* result is NaN.
C19_FixedPoint ==
    AfterLrpNext =>
        /\ (Len(hist) = 1 /\ IsFinite(hist[1])) => Last(outs) = hist[1]
        /\ (AllEqual(self.deque) /\ IsFinite(self.deque[1])) => Last(outs) = self.deque[1]
        /\ (AllEqual(self.deque) /\ self.deque[1] = INFINITY) =>
              Last(outs) = IF self.period = 1 THEN INFINITY ELSE NaN

\* period 3 in steady state holding 4, 4, 4 after other samples: returns 4
C19_Witness ==
    /\ AfterLrpNext /\ self.period = 3
    /\ hist = Nums(<<1, 5, 4, 4, 4>>)
    /\ Last(outs) = F(4)

\* warm-up: two equal samples held of a period of 3
C19_WitnessWarmUp ==
    /\ AfterLrpNext /\ self.period = 3
    /\ hist = Nums(<<2, 2>>)
    /\ outs = Nums(<<2, 2>>)

\* the first call after a reset returns its input
C19_WitnessAfterReset ==
    /\ AfterLrpNext /\ self.period = 2
    /\ hist = Nums(<<5>>) /\ outs = Nums(<<5>>)
====
